---------------------------- MODULE Spec2Model ----------------------------
(***************************************************************************)
(* Model of fix-repo-authors.py: the interactive author-identity           *)
(* reconciliation workflow (update_repo, update_all_repos), the history    *)
(* client (GitClient), the numbered-choice prompt (user_prompt) and the    *)
(* authorship-summary parser (GitClient.get_all_authors).                  *)
(*                                                                         *)
(* Text is modelled as sequences of one-character strings, so that         *)
(* formatting (git shortlog) and parsing (strip, split, fullmatch) are     *)
(* computed and not assumed to be inverse to each other.                   *)
(***************************************************************************)
EXTENDS Integers, Sequences, FiniteSets, TLC

VARIABLES
    pc,               \* position of the one (sequential) process
    automatic_push,   \* main: answer to "automatically push changes"
    call_back,        \* main: the workflow chosen, update_repo or update_all_repos
    repos,            \* list[GitRepo] (update_repo: the single repo)
    wc,               \* working copies under _working_dir, indexed like repos
    idx,              \* position of the running `for repo in repos` loop
    names,            \* update_all_repos: names
    emails,           \* update_all_repos: emails
    options,          \* update_all_repos: the dict handed to user_prompt
    item_to_replace,  \* update_all_repos: item_to_replace
    new_value,        \* update_all_repos: new_value
    done,             \* update_all_repos: done
    push_changes,     \* update_repo: push_changes / update_all_repos: push_repo
    rounds,           \* update_all_repos: rewrite rounds made so far (bounded)
    dirty,            \* observer: repos rewritten since their last listing
    pushed,           \* observer: the force-pushes issued, in order
    yes,              \* observer: repos whose push confirmation was Yes
    calls,            \* observer: rewrite calls of the current bulk round
    snap,             \* observer: authorship per repo at the last menu render
    supplied,         \* observer: new names typed during the name pass
    stdout,           \* parser run: captured output of git shortlog -sne
    parsed,           \* parser run: what get_all_authors did with stdout
    table,            \* prompt run: the options dict
    answer,           \* prompt run: the last answer typed
    prompted          \* prompt run: what user_prompt did with the answer

vars == <<pc, automatic_push, call_back, repos, wc, idx, names, emails, options,
          item_to_replace, new_value, done, push_changes, rounds, dirty,
          pushed, yes, calls, snap, supplied, stdout, parsed, table, answer,
          prompted>>

workflowVars == <<pc, automatic_push, call_back, repos, wc, idx, names, emails, options,
                  item_to_replace, new_value, done, push_changes, rounds,
                  dirty, pushed, yes, calls, snap, supplied>>

parserVars == <<stdout, parsed>>

promptVars == <<table, answer, prompted>>

---------------------------------------------------------------------------
(* Bounds *)

MaxRepos == 2

MaxUpdates == 2

MaxOutLen == 5

MaxAnswerLen == 2

MaxOptions == 3

MaxAsks == 2

---------------------------------------------------------------------------
(* Text helpers *)

TAB == "\t"

NL == "\n"

SP == " "

Whitespace == {SP, TAB, NL}

Strings(alphabet, n) == UNION {[1..m -> alphabet] : m \in 0..n}

\* str.strip(): leading and trailing whitespace removed.
strip(s) ==
    LET keep == {k \in 1..Len(s) : s[k] \notin Whitespace}
    IN  IF keep = {} THEN <<>>
        ELSE LET lo == CHOOSE k \in keep : \A j \in keep : k <= j
                 hi == CHOOSE k \in keep : \A j \in keep : k >= j
             IN  SubSeq(s, lo, hi)

\* str.split(sep) with a one-character separator: always at least one piece.
RECURSIVE split(_, _)
split(s, sep) ==
    LET at == {k \in 1..Len(s) : s[k] = sep}
    IN  IF at = {} THEN <<s>>
        ELSE LET k == CHOOSE k \in at : \A j \in at : k <= j
             IN  <<SubSeq(s, 1, k - 1)>> \o split(SubSeq(s, k + 1, Len(s)), sep)

\* re.fullmatch("(.*) <(.*)>", s): the positions k at which " <" may start;
\* "." matches anything but a newline, and the first group is greedy.
MatchStarts(s) ==
    {k \in 1..Len(s) :
        /\ k + 2 <= Len(s)
        /\ s[k] = SP
        /\ s[k + 1] = "<"
        /\ s[Len(s)] = ">"
        /\ \A j \in 1..Len(s) : s[j] # NL}

fullmatch(s) ==
    IF MatchStarts(s) = {} THEN <<>>
    ELSE LET k == CHOOSE k \in MatchStarts(s) : \A j \in MatchStarts(s) : k >= j
         IN  <<SubSeq(s, 1, k - 1), SubSeq(s, k + 2, Len(s) - 1)>>

RECURSIVE Flatten(_)
Flatten(ss) == IF ss = <<>> THEN <<>> ELSE Head(ss) \o Flatten(Tail(ss))

\* GitClient.get_all_authors on the captured stdout: either the list of
\* (name, email) pairs or the IndexError of author.split("\t")[1].
get_all_authors_of(out) ==
    LET output == split(strip(out), NL)
        pieces == [k \in 1..Len(output) |-> split(output[k], TAB)]
    IN  IF \E k \in 1..Len(output) : Len(pieces[k]) < 2
        THEN [raised |-> "IndexError", ret |-> <<>>]
        ELSE LET count_removed == [k \in 1..Len(output) |-> pieces[k][2]]
                 results == [k \in 1..Len(output) |-> fullmatch(count_removed[k])]
                 kept == SelectSeq(results, LAMBDA r : r # <<>>)
             IN  [raised |-> "none", ret |-> kept]

---------------------------------------------------------------------------
(* user_prompt *)

DigitChars == <<"0", "1", "2", "3", "4", "5", "6", "7", "8", "9">>

Decimal == {DigitChars[k] : k \in 1..Len(DigitChars)}

\* Characters str.isnumeric() accepts and int() rejects; "^2" stands for the
\* one character SUPERSCRIPT TWO.
NumericNonDecimal == {"^2"}

DigitValue(c) == (CHOOSE k \in 1..Len(DigitChars) : DigitChars[k] = c) - 1

\* str.isnumeric(): non-empty and every character numeric.
isnumeric(s) ==
    /\ Len(s) > 0
    /\ \A k \in 1..Len(s) : s[k] \in Decimal \cup NumericNonDecimal

RECURSIVE DecimalValue(_)
DecimalValue(s) ==
    IF s = <<>> THEN 0
    ELSE 10 * DecimalValue(SubSeq(s, 1, Len(s) - 1)) + DigitValue(s[Len(s)])

\* int(answer) for an answer that passed isnumeric().
int(s) ==
    IF \E k \in 1..Len(s) : s[k] \notin Decimal
    THEN [raised |-> "ValueError", val |-> 0]
    ELSE [raised |-> "none", val |-> DecimalValue(s)]

\* A dict is a sequence of [label, value] entries with distinct labels, in
\* insertion order.
DictKeys(d) == {d[k].label : k \in 1..Len(d)}

DictGet(d, label) == (CHOOSE k \in 1..Len(d) : d[k].label = label)

\* {**a, **b}: an entry of b replaces the entry of a with the same label in
\* place, or is appended.
RECURSIVE DictMerge(_, _)
DictMerge(a, b) ==
    IF b = <<>> THEN a
    ELSE LET e == Head(b)
             a1 == IF e.label \in DictKeys(a)
                   THEN [a EXCEPT ![DictGet(a, e.label)] = e]
                   ELSE Append(a, e)
         IN  DictMerge(a1, Tail(b))

\* One pass of user_prompt over one answer read by input(): the while loop
\* asks again, or the lookup prompt_options[int(answer)] raises, or the
\* option's value is returned.
user_prompt(opts, ans) ==
    LET option_count == 1..Len(opts)
        prompt_options == [k \in option_count |-> opts[k].label]
    IN  IF ~isnumeric(ans) /\ TRUE  \* a str is never `in` a range of ints
        THEN [state |-> "asking", error |-> "none", value |-> <<>>]
        ELSE IF int(ans).raised # "none"
        THEN [state |-> "raised", error |-> int(ans).raised, value |-> <<>>]
        ELSE IF int(ans).val \notin DOMAIN prompt_options
        THEN [state |-> "raised", error |-> "KeyError", value |-> <<>>]
        ELSE LET chosen_option == prompt_options[int(ans).val]
             IN  [state |-> "returned", error |-> "none",
                  value |-> opts[DictGet(opts, chosen_option)].value]

YesNo ==
    <<[label |-> <<"Y", "e", "s">>, value |-> TRUE],
      [label |-> <<"N", "o">>, value |-> FALSE]>>

user_prompt_yes_no(ans) == user_prompt(YesNo, ans)

---------------------------------------------------------------------------
(* Idle values of the variables a run does not use *)

NoItem == [type |-> "none", value |-> <<>>]

WorkflowIdle ==
    /\ pc = "idle"
    /\ automatic_push = FALSE
    /\ call_back = "none"
    /\ repos = <<>>
    /\ wc = <<>>
    /\ idx = 1
    /\ names = {}
    /\ emails = {}
    /\ options = <<>>
    /\ item_to_replace = NoItem
    /\ new_value = <<>>
    /\ done = FALSE
    /\ push_changes = FALSE
    /\ rounds = 0
    /\ dirty = {}
    /\ pushed = <<>>
    /\ yes = {}
    /\ calls = <<>>
    /\ snap = <<>>
    /\ supplied = <<>>

ParserIdle ==
    /\ stdout = <<>>
    /\ parsed = [state |-> "idle"]

PromptIdle ==
    /\ table = <<>>
    /\ answer = <<>>
    /\ prompted = [state |-> "idle", error |-> "none", value |-> <<>>, asks |-> 0]

---------------------------------------------------------------------------
(* The parser alone: get_all_authors over every short captured output *)

OutputAlphabet == {"1", "A", SP, "<", ">", TAB, NL}

InitParse ==
    /\ WorkflowIdle
    /\ PromptIdle
    /\ stdout \in Strings(OutputAlphabet, MaxOutLen)
    /\ parsed = [state |-> "pending"]

ParseOutput ==
    /\ parsed.state = "pending"
    /\ parsed' = [state |-> "ran", result |-> get_all_authors_of(stdout)]
    /\ UNCHANGED <<stdout, workflowVars, promptVars>>

NextParse == ParseOutput

SpecParse == InitParse /\ [][NextParse]_vars

\* What the parsing contract asks for: per line of the output, in order, the
\* pair of the text after the first tab when that text fully matches
\* "(.*) <(.*)>", and nothing for any other line.
AfterFirstTab(line) ==
    LET at == {k \in 1..Len(line) : line[k] = TAB}
    IN  IF at = {} THEN <<>>
        ELSE SubSeq(line, (CHOOSE k \in at : \A j \in at : k <= j) + 1, Len(line))

ExpectedRecords(out) ==
    LET lines == split(out, NL)
        recs == [k \in 1..Len(lines) |-> fullmatch(AfterFirstTab(lines[k]))]
    IN  SelectSeq(recs, LAMBDA r : r # <<>>)

\* C5: for every output of the authorship-summary command get_all_authors
\* returns, in line order, exactly one (name, email) pair per line whose
\* text after the first tab fully matches "(.*) <(.*)>"; every other line
\* (a line without the angle-bracket wrapper, the empty output of a
\* repository with no commits) contributes no record and raises no error.
C5_ParsingTolerant ==
    parsed.state = "ran" =>
        /\ parsed.result.raised = "none"
        /\ parsed.result.ret = ExpectedRecords(stdout)

---------------------------------------------------------------------------
(* The prompt alone: user_prompt over every short answer *)

AnswerAlphabet == {"0", "1", "2", "4", "x", "^2"}

\* An options table of n entries whose values differ from their positions.
OptionsTable(n) ==
    [k \in 1..n |-> [label |-> <<"L", DigitChars[k + 1]>>,
                     value |-> <<"V", DigitChars[k + 1]>>]]

InitPrompt ==
    /\ WorkflowIdle
    /\ ParserIdle
    /\ table \in {OptionsTable(n) : n \in 1..MaxOptions}
    /\ answer = <<>>
    /\ prompted = [state |-> "asking", error |-> "none", value |-> <<>>, asks |-> 0]

\* input(...) returns one more answer and user_prompt goes on with it.
PromptAnswer ==
    /\ prompted.state = "asking"
    /\ prompted.asks < MaxAsks
    /\ \E ans \in Strings(AnswerAlphabet, MaxAnswerLen) :
          /\ answer' = ans
          /\ prompted' = [state |-> user_prompt(table, ans).state,
                          error |-> user_prompt(table, ans).error,
                          value |-> user_prompt(table, ans).value,
                          asks |-> prompted.asks + 1]
    /\ UNCHANGED <<table, workflowVars, parserVars>>

NextPrompt == PromptAnswer

SpecPrompt == InitPrompt /\ [][NextPrompt]_vars

\* A decimal number in 1..n.
ValidAnswer(ans, n) ==
    /\ Len(ans) > 0
    /\ \A k \in 1..Len(ans) : ans[k] \in Decimal
    /\ DecimalValue(ans) \in 1..n

\* C10: user_prompt keeps asking while the answer is not a decimal number in
\* 1..len(options); when it returns, it returns the value of the option at
\* the answered position; it never fails on an answer that is non-numeric,
\* zero, or larger than the number of options.
C10_PromptValidation ==
    prompted.asks > 0 =>
        IF ValidAnswer(answer, Len(table))
        THEN /\ prompted.state = "returned"
             /\ prompted.value = table[DecimalValue(answer)].value
        ELSE prompted.state = "asking"

---------------------------------------------------------------------------
(* Repositories, working copies and the external tools *)

NameSeq == << <<"A">>, <<"B">>, <<"C">> >>

EmailSeq == << <<"a">>, <<"b">> >>

NameVals == {NameSeq[k] : k \in 1..Len(NameSeq)}

EmailVals == {EmailSeq[k] : k \in 1..Len(EmailSeq)}

\* The authorship a remote repository may hold when it is cloned; the empty
\* set is a repository with no commits.
InitAuthorships ==
    { {},
      {<< <<"A">>, <<"a">> >>},
      {<< <<"B">>, <<"b">> >>},
      {<< <<"A">>, <<"a">> >>, << <<"B">>, <<"a">> >>} }

RepoName(k) == <<"r", DigitChars[k + 1]>>

RepoURL(k) == <<"u", DigitChars[k + 1]>>

\* An origin a stale working copy may carry that is not the handle's URL.
OtherURL == <<"u", "0">>

NoOrigin == <<>>

\* GitRepo(name, ssh_url) with __post_init__.
GitRepo(name, ssh_url) ==
    [name |-> name, ssh_url |-> ssh_url, origin |-> ssh_url,
     names_updated |-> <<>>, emails_updated |-> <<>>]

\* GitClient.get_repo_list: the n repositories of the account, in listing order.
get_repo_list(n) == [k \in 1..n |-> GitRepo(RepoName(k), RepoURL(k))]

\* git shortlog -sne: one line "<count>\t<name> <<email>>" per author, in
\* the order of the author text.
RecordSeq ==
    [k \in 1..(Len(NameSeq) * Len(EmailSeq)) |->
        <<NameSeq[((k - 1) \div Len(EmailSeq)) + 1],
          EmailSeq[((k - 1) % Len(EmailSeq)) + 1]>>]

ShortlogLine(r) == <<SP, "1", TAB>> \o r[1] \o <<SP, "<">> \o r[2] \o <<">", NL>>

Shortlog(authors) ==
    LET present == SelectSeq(RecordSeq, LAMBDA r : r \in authors)
    IN  Flatten([k \in 1..Len(present) |-> ShortlogLine(present[k])])

get_all_authors(w) == get_all_authors_of(Shortlog(w.authors))

get_origin(w) == strip(w.origin)

\* Mutant: an existing origin remote is left as it is.
set_origin_add_only(w, origin) ==
    IF get_origin(w) # <<>>
    THEN w
    ELSE [w EXCEPT !.origin = origin]

set_origin(w, origin) ==
    IF get_origin(w) # <<>>
    THEN [w EXCEPT !.origin = origin]   \* git remote set-url origin
    ELSE [w EXCEPT !.origin = origin]   \* git remote add origin

\* The callbacks handed to git-filter-repo.
\* Mutant: the comparison of the callback is inverted.
name_callback_inverted(old, new, name) == IF name = old THEN name ELSE new

name_callback(old, new, name) == IF name # old THEN name ELSE new

email_callback(old, new, email) == IF email # old THEN email ELSE new

\* git-filter-repo: when it runs (ok) every commit's field goes through the
\* callback and the origin remote is removed; when it fails nothing changes.
filter_repo_name(w, old, new, ok) ==
    IF ok
    THEN [authors |-> {<<name_callback(old, new, r[1]), r[2]>> : r \in w.authors},
          origin |-> NoOrigin]
    ELSE w

filter_repo_email(w, old, new, ok) ==
    IF ok
    THEN [authors |-> {<<r[1], email_callback(old, new, r[2])>> : r \in w.authors},
          origin |-> NoOrigin]
    ELSE w

update_name(w, repo, old, new, ok) ==
    set_origin(filter_repo_name(w, old, new, ok), repo.origin)

update_email(w, repo, old, new, ok) ==
    set_origin(filter_repo_email(w, old, new, ok), repo.origin)

\* GitClient.push: the working copy after set_origin, and the URL the
\* force-push goes to.
push(w, repo) ==
    LET w1 == set_origin(w, repo.origin)
    IN  [wc |-> w1, url |-> get_origin(w1)]

\* GitClient.clone: a fresh clone of the remote, or the existing directory
\* left as it is when the operator declines to delete it.
clone(repo, exists, ans, stale, remote) ==
    LET fresh == [authors |-> remote, origin |-> repo.ssh_url]
    IN  IF exists
        THEN LET delete_dir == user_prompt_yes_no(ans)
             IN  IF delete_dir.state # "returned"
                 THEN [state |-> delete_dir.state, wc |-> stale]
                 ELSE IF delete_dir.value
                 THEN [state |-> "returned", wc |-> fresh]
                 ELSE [state |-> "returned", wc |-> stale]
        ELSE [state |-> "returned", wc |-> fresh]

StaleCopies == [authors : InitAuthorships, origin : {OtherURL}]

\* What the operator may type at a numbered prompt.
WorkflowAnswers ==
    {<<"x">>} \cup {<<DigitChars[k]>> : k \in 1..(Len(NameSeq) + Len(EmailSeq) + 3)}

---------------------------------------------------------------------------
(* The workflow *)

MaxRounds == 2

Init ==
    /\ pc = "main"
    /\ automatic_push \in BOOLEAN
    /\ call_back = "none"
    /\ repos = <<>>
    /\ wc = <<>>
    /\ idx = 1
    /\ names = {}
    /\ emails = {}
    /\ options = <<>>
    /\ item_to_replace = NoItem
    /\ new_value = <<>>
    /\ done = FALSE
    /\ push_changes = FALSE
    /\ rounds = 0
    /\ dirty = {}
    /\ pushed = <<>>
    /\ yes = {}
    /\ calls = <<>>
    /\ snap = <<>>
    /\ supplied = <<>>
    /\ ParserIdle
    /\ PromptIdle

\* The workflow leaves the variables of the parser and prompt runs alone.
Idle == UNCHANGED <<stdout, parsed, table, answer, prompted>>

\* An exception nobody catches ends the process: the handles, the working
\* copies on disk and what was pushed remain, the locals of the running
\* function are gone.
CrashAt ==
    /\ pc' = "crashed"
    /\ idx' = 1
    /\ names' = {}
    /\ emails' = {}
    /\ options' = <<>>
    /\ item_to_replace' = NoItem
    /\ new_value' = <<>>
    /\ done' = FALSE
    /\ push_changes' = FALSE
    /\ rounds' = 0
    /\ snap' = <<>>
    /\ UNCHANGED <<automatic_push, call_back, repos, wc, pushed, yes, supplied>>

Crash == CrashAt /\ calls' = <<>> /\ UNCHANGED dirty

\* user_prompt's while loop asks again: nothing has changed.
AskAgain == UNCHANGED workflowVars

\* main picks update_repo; update_repo reads the name and the URL and
\* builds the handle.
update_repo_start ==
    /\ pc = "main"
    /\ Idle
    /\ call_back' = "update_repo"
    /\ repos' = <<GitRepo(RepoName(1), RepoURL(1))>>
    /\ idx' = 1
    /\ pc' = "ur_clone"
    /\ UNCHANGED <<automatic_push, wc, names, emails, options, item_to_replace,
                   new_value, done, push_changes, rounds, dirty, pushed, yes,
                   calls, snap, supplied>>

\* update_repo: client.clone(repo).
ur_clone ==
    /\ pc = "ur_clone"
    /\ Idle
    /\ \E exists \in BOOLEAN, ans \in WorkflowAnswers,
          stale \in StaleCopies, remote \in InitAuthorships :
          LET c == clone(repos[1], exists, ans, stale, remote)
          IN  CASE c.state = "asking" -> AskAgain
                [] c.state = "raised" -> Crash
                [] OTHER ->
                    /\ wc' = <<c.wc>>
                    /\ pc' = "hn_list"
                    /\ UNCHANGED <<automatic_push, call_back, repos, idx, names,
                                   emails, options, item_to_replace, new_value,
                                   done, push_changes, rounds, dirty, pushed,
                                   yes, calls, snap, supplied>>

\* handle_names / handle_emails: authors = client.get_all_authors(repo).
pass_list(here, next) ==
    /\ pc = here
    /\ Idle
    /\ dirty' = dirty \ {1}
    /\ calls' = <<>>
    /\ IF get_all_authors(wc[1]).raised # "none"
       THEN CrashAt
       ELSE /\ pc' = next
            /\ UNCHANGED <<automatic_push, call_back, repos, wc, idx, names,
                           emails, options, item_to_replace, new_value, done,
                           push_changes, rounds, pushed, yes, snap, supplied>>

\* handle_names / handle_emails: answer = user_prompt_yes_no(prompt).
pass_prompt(here, update, after, log) ==
    /\ pc = here
    /\ Idle
    /\ \E ans \in WorkflowAnswers :
          LET r == user_prompt_yes_no(ans)
          IN  CASE r.state = "asking" -> AskAgain
                [] r.state = "raised" -> Crash
                [] OTHER ->
                    /\ r.value => Len(log) < MaxUpdates
                    /\ pc' = IF r.value THEN update ELSE after
                    /\ UNCHANGED <<automatic_push, call_back, repos, wc, idx,
                                   names, emails, options, item_to_replace,
                                   new_value, done, push_changes, rounds, dirty,
                                   pushed, yes, calls, snap, supplied>>

hn_list == pass_list("hn_list", "hn_prompt")

hn_prompt == pass_prompt("hn_prompt", "hn_update", "he_list", repos[1].names_updated)

\* Mutant: the replaced name is logged instead of the new one.
names_updated_append_old(repo, old_name, new_name) ==
    [repo EXCEPT !.names_updated = Append(@, old_name)]

\* handle_names: repo.names_updated.append(new_name).
names_updated_append(repo, old_name, new_name) ==
    [repo EXCEPT !.names_updated = Append(@, new_name)]

\* Mutant: after a rename the loop asks again without listing the authors.
hn_update_no_relist ==
    /\ pc = "hn_update"
    /\ Idle
    /\ \E old_name \in NameVals, new_name \in NameVals, ok \in BOOLEAN :
          /\ wc' = [wc EXCEPT ![1] = update_name(wc[1], repos[1], old_name, new_name, ok)]
          /\ repos' = [repos EXCEPT ![1] = names_updated_append(@, old_name, new_name)]
          /\ calls' = <<[op |-> "name", repo |-> 1, old |-> old_name, new |-> new_name]>>
          /\ supplied' = Append(supplied, new_name)
    /\ dirty' = dirty \cup {1}
    /\ pc' = "hn_prompt"
    /\ UNCHANGED <<automatic_push, call_back, idx, names, emails, options,
                   item_to_replace, new_value, done, push_changes, rounds,
                   pushed, yes, snap>>

\* handle_names: the two inputs, client.update_name, the append.
hn_update ==
    /\ pc = "hn_update"
    /\ Idle
    /\ \E old_name \in NameVals, new_name \in NameVals, ok \in BOOLEAN :
          /\ wc' = [wc EXCEPT ![1] = update_name(wc[1], repos[1], old_name, new_name, ok)]
          /\ repos' = [repos EXCEPT ![1] = names_updated_append(@, old_name, new_name)]
          /\ calls' = <<[op |-> "name", repo |-> 1, old |-> old_name, new |-> new_name]>>
          /\ supplied' = Append(supplied, new_name)
    /\ dirty' = dirty \cup {1}
    /\ pc' = "hn_list"
    /\ UNCHANGED <<automatic_push, call_back, idx, names, emails, options,
                   item_to_replace, new_value, done, push_changes, rounds,
                   pushed, yes, snap>>

he_list == pass_list("he_list", "he_prompt")

he_prompt ==
    pass_prompt("he_prompt", "he_update", "ur_push_prompt", repos[1].emails_updated)

\* handle_emails: repo.emails_updated.append(new_name).
emails_updated_append(repo, old_name, new_name) ==
    [repo EXCEPT !.emails_updated = Append(@, new_name)]

\* handle_emails: the two inputs, client.update_email, the append.
he_update ==
    /\ pc = "he_update"
    /\ Idle
    /\ \E old_name \in EmailVals, new_name \in EmailVals, ok \in BOOLEAN :
          /\ wc' = [wc EXCEPT ![1] = update_email(wc[1], repos[1], old_name, new_name, ok)]
          /\ repos' = [repos EXCEPT ![1] = emails_updated_append(@, old_name, new_name)]
          /\ calls' = <<[op |-> "email", repo |-> 1, old |-> old_name, new |-> new_name]>>
    /\ dirty' = dirty \cup {1}
    /\ pc' = "he_list"
    /\ UNCHANGED <<automatic_push, call_back, idx, names, emails, options,
                   item_to_replace, new_value, done, push_changes, rounds,
                   pushed, yes, snap, supplied>>

\* update_repo: push_changes = automatic_push, or the operator's answer.
ur_push_prompt ==
    /\ pc = "ur_push_prompt"
    /\ Idle
    /\ IF automatic_push
       THEN /\ push_changes' = automatic_push
            /\ pc' = "ur_push"
            /\ UNCHANGED <<automatic_push, call_back, repos, wc, idx, names,
                           emails, options, item_to_replace, new_value, done,
                           rounds, dirty, pushed, yes, calls, snap, supplied>>
       ELSE \E ans \in WorkflowAnswers :
               LET r == user_prompt_yes_no(ans)
               IN  CASE r.state = "asking" -> AskAgain
                     [] r.state = "raised" -> Crash
                     [] OTHER ->
                         /\ push_changes' = r.value
                         /\ yes' = IF r.value THEN yes \cup {1} ELSE yes
                         /\ pc' = "ur_push"
                         /\ UNCHANGED <<automatic_push, call_back, repos, wc,
                                        idx, names, emails, options,
                                        item_to_replace, new_value, done, rounds,
                                        dirty, pushed, calls, snap, supplied>>

\* update_repo: if push_changes: client.push(repo).
ur_push ==
    /\ pc = "ur_push"
    /\ Idle
    /\ IF push_changes
       THEN /\ wc' = [wc EXCEPT ![1] = push(wc[1], repos[1]).wc]
            /\ pushed' = Append(pushed, [repo |-> 1, url |-> push(wc[1], repos[1]).url])
       ELSE UNCHANGED <<wc, pushed>>
    /\ pc' = "ur_summary"
    /\ UNCHANGED <<automatic_push, call_back, repos, idx, names, emails, options,
                   item_to_replace, new_value, done, push_changes, rounds,
                   dirty, yes, calls, snap, supplied>>

\* update_repo: the summary, with the final client.get_all_authors(repo).
ur_summary == pass_list("ur_summary", "done")

---------------------------------------------------------------------------
(* update_all_repos *)

\* main picks update_all_repos; repos = client.get_repo_list(github_user).
update_all_repos_start ==
    /\ pc = "main"
    /\ Idle
    /\ call_back' = "update_all_repos"
    /\ \E n \in 0..MaxRepos : repos' = get_repo_list(n)
    /\ idx' = 1
    /\ pc' = "ua_clone"
    /\ UNCHANGED <<automatic_push, wc, names, emails, options, item_to_replace,
                   new_value, done, push_changes, rounds, dirty, pushed, yes,
                   calls, snap, supplied>>

\* for repo in repos: client.clone(repo).
ua_clone ==
    /\ pc = "ua_clone"
    /\ Idle
    /\ idx <= Len(repos)
    /\ \E exists \in BOOLEAN, ans \in WorkflowAnswers,
          stale \in StaleCopies, remote \in InitAuthorships :
          LET c == clone(repos[idx], exists, ans, stale, remote)
          IN  CASE c.state = "asking" -> AskAgain
                [] c.state = "raised" -> Crash
                [] OTHER ->
                    /\ wc' = Append(wc, c.wc)
                    /\ idx' = idx + 1
                    /\ UNCHANGED <<pc, automatic_push, call_back, repos, names,
                                   emails, options, item_to_replace, new_value,
                                   done, push_changes, rounds, dirty, pushed,
                                   yes, calls, snap, supplied>>

\* names = set(); emails = set(); done = False, before the while loop.
ua_clone_end ==
    /\ pc = "ua_clone"
    /\ Idle
    /\ idx > Len(repos)
    /\ names' = {}
    /\ emails' = {}
    /\ done' = FALSE
    /\ pc' = "ua_while"
    /\ UNCHANGED <<automatic_push, call_back, repos, wc, idx, options,
                   item_to_replace, new_value, push_changes, rounds, dirty,
                   pushed, yes, calls, snap, supplied>>

\* Mutant: names and emails are not emptied when a round starts.
ua_while_stale ==
    /\ pc = "ua_while"
    /\ Idle
    /\ IF done
       THEN /\ pc' = "ua_final"
            /\ UNCHANGED <<names, emails, item_to_replace, new_value>>
       ELSE /\ pc' = "ua_list"
            /\ UNCHANGED <<names, emails>>
            /\ item_to_replace' = NoItem
            /\ new_value' = <<>>
    /\ idx' = 1
    /\ calls' = <<>>
    /\ snap' = <<>>
    /\ UNCHANGED <<automatic_push, call_back, repos, wc, options, done,
                   push_changes, rounds, dirty, pushed, yes, supplied>>

\* while not done: the loop ends, or the next round starts with
\* names = set(); emails = set().  item_to_replace and new_value are
\* assigned again (lines 281 and 284) before the round reads them, so the
\* values the finished round left in them are dropped here.
ua_while ==
    /\ pc = "ua_while"
    /\ Idle
    /\ IF done
       THEN /\ pc' = "ua_final"
            /\ UNCHANGED <<names, emails, item_to_replace, new_value>>
       ELSE /\ pc' = "ua_list"
            /\ names' = {}
            /\ emails' = {}
            /\ item_to_replace' = NoItem
            /\ new_value' = <<>>
    /\ idx' = 1
    /\ calls' = <<>>
    /\ snap' = <<>>
    /\ UNCHANGED <<automatic_push, call_back, repos, wc, options, done,
                   push_changes, rounds, dirty, pushed, yes, supplied>>

\* for repo in repos: repo_authors = client.get_all_authors(repo), and the
\* names and emails of its records are added.
ua_list ==
    /\ pc = "ua_list"
    /\ Idle
    /\ idx <= Len(repos)
    /\ dirty' = dirty \ {idx}
    /\ LET repo_authors == get_all_authors(wc[idx])
       IN  IF repo_authors.raised # "none"
           THEN CrashAt /\ calls' = <<>>
           ELSE /\ names' = names \cup
                        {repo_authors.ret[k][1] : k \in 1..Len(repo_authors.ret)}
                /\ emails' = emails \cup
                        {repo_authors.ret[k][2] : k \in 1..Len(repo_authors.ret)}
                /\ idx' = idx + 1
                /\ UNCHANGED <<pc, automatic_push, call_back, repos, wc, options,
                               item_to_replace, new_value, done, push_changes,
                               rounds, pushed, yes, calls, snap, supplied>>

\* The orders in which a set may be iterated.
Orders(S) ==
    {f \in [1..Cardinality(S) -> S] : \A a, b \in 1..Cardinality(S) : a # b => f[a] # f[b]}

name_options(order) ==
    [k \in 1..Len(order) |->
        [label |-> order[k] \o <<" (name)">>,
         value |-> [type |-> "name", value |-> order[k]]]]

email_options(order) ==
    [k \in 1..Len(order) |->
        [label |-> order[k] \o <<" (email)">>,
         value |-> [type |-> "email", value |-> order[k]]]]

quit_option == <<[label |-> <<"quit">>, value |-> [type |-> "quit", value |-> <<>>]]>>

\* {**name_options, **email_options, **quit_option}: the menu is rendered.
ua_menu ==
    /\ pc = "ua_list"
    /\ Idle
    /\ idx > Len(repos)
    /\ \E norder \in Orders(names), eorder \in Orders(emails) :
          options' = DictMerge(DictMerge(name_options(norder), email_options(eorder)),
                               quit_option)
    /\ snap' = [k \in 1..Len(wc) |-> wc[k].authors]
    /\ calls' = <<>>
    /\ pc' = "ua_pick"
    /\ UNCHANGED <<automatic_push, call_back, repos, wc, idx, names, emails,
                   item_to_replace, new_value, done, push_changes, rounds,
                   dirty, pushed, yes, supplied>>

\* item_to_replace = user_prompt(prompt, options, "\n").
ua_pick ==
    /\ pc = "ua_pick"
    /\ Idle
    /\ \E ans \in WorkflowAnswers :
          LET r == user_prompt(options, ans)
          IN  CASE r.state = "asking" -> AskAgain
                [] r.state = "raised" -> Crash
                [] OTHER ->
                    /\ r.value.type # "quit" => rounds < MaxRounds
                    /\ item_to_replace' = r.value
                    /\ options' = <<>>
                    /\ pc' = "ua_new_value"
                    /\ UNCHANGED <<automatic_push, call_back, repos, wc, idx,
                                   names, emails, new_value, done, push_changes,
                                   rounds, dirty, pushed, yes, calls, snap,
                                   supplied>>

\* new_value = "", and the replacement is asked for unless quit was chosen.
ua_new_value ==
    /\ pc = "ua_new_value"
    /\ Idle
    /\ IF item_to_replace.type # "quit"
       THEN /\ \E typed \in (IF item_to_replace.type = "name" THEN NameVals ELSE EmailVals) :
                  new_value' = typed
            /\ rounds' = rounds + 1
       ELSE /\ new_value' = <<>>
            /\ UNCHANGED rounds
    /\ idx' = 1
    /\ pc' = "ua_apply"
    /\ UNCHANGED <<automatic_push, call_back, repos, wc, names, emails, options,
                   item_to_replace, done, push_changes, dirty, pushed, yes,
                   calls, snap, supplied>>

\* for repo in repos: if quit: done = True; break.
ua_apply_quit ==
    /\ pc = "ua_apply"
    /\ Idle
    /\ idx <= Len(repos)
    /\ item_to_replace.type = "quit"
    /\ done' = TRUE
    /\ pc' = "ua_while"
    /\ UNCHANGED <<automatic_push, call_back, repos, wc, idx, names, emails,
                   options, item_to_replace, new_value, push_changes, rounds,
                   dirty, pushed, yes, calls, snap, supplied>>

\* Mutant: a repository in which the old value does not occur is skipped.
ua_apply_update_skip ==
    /\ pc = "ua_apply"
    /\ Idle
    /\ idx <= Len(repos)
    /\ item_to_replace.type # "quit"
    /\ LET field == IF item_to_replace.type = "email" THEN 2 ELSE 1
           occurs == \E r \in wc[idx].authors : r[field] = item_to_replace.value
       IN  IF occurs
           THEN /\ \E ok \in BOOLEAN :
                      wc' = [wc EXCEPT ![idx] =
                                IF item_to_replace.type = "email"
                                THEN update_email(@, repos[idx], item_to_replace.value, new_value, ok)
                                ELSE update_name(@, repos[idx], item_to_replace.value, new_value, ok)]
                /\ calls' = Append(calls, [op |-> IF item_to_replace.type = "email"
                                                THEN "email" ELSE "name",
                                         repo |-> idx,
                                           old |-> item_to_replace.value, new |-> new_value])
                /\ dirty' = dirty \cup {idx}
           ELSE UNCHANGED <<wc, calls, dirty>>
    /\ idx' = idx + 1
    /\ UNCHANGED <<pc, automatic_push, call_back, repos, names, emails, options,
                   item_to_replace, new_value, done, push_changes, rounds,
                   pushed, yes, snap, supplied>>

\* for repo in repos: client.update_email / client.update_name on this repo.
ua_apply_update ==
    /\ pc = "ua_apply"
    /\ Idle
    /\ idx <= Len(repos)
    /\ item_to_replace.type # "quit"
    /\ \E ok \in BOOLEAN :
          wc' = [wc EXCEPT ![idx] =
                    IF item_to_replace.type = "email"
                    THEN update_email(@, repos[idx], item_to_replace.value, new_value, ok)
                    ELSE update_name(@, repos[idx], item_to_replace.value, new_value, ok)]
    /\ calls' = Append(calls, [op |-> IF item_to_replace.type = "email"
                                                THEN "email" ELSE "name",
                                         repo |-> idx,
                               old |-> item_to_replace.value, new |-> new_value])
    /\ dirty' = dirty \cup {idx}
    /\ idx' = idx + 1
    /\ UNCHANGED <<pc, automatic_push, call_back, repos, names, emails, options,
                   item_to_replace, new_value, done, push_changes, rounds,
                   pushed, yes, snap, supplied>>

\* The for loop has gone through repos.
ua_apply_end ==
    /\ pc = "ua_apply"
    /\ Idle
    /\ idx > Len(repos)
    /\ pc' = "ua_while"
    /\ UNCHANGED <<automatic_push, call_back, repos, wc, idx, names, emails,
                   options, item_to_replace, new_value, done, push_changes,
                   rounds, dirty, pushed, yes, calls, snap, supplied>>

\* for repo in repos: pprint.pprint(client.get_all_authors(repo)).
ua_final ==
    /\ pc = "ua_final"
    /\ Idle
    /\ idx <= Len(repos)
    /\ dirty' = dirty \ {idx}
    /\ IF get_all_authors(wc[idx]).raised # "none"
       THEN CrashAt /\ calls' = <<>>
       ELSE /\ idx' = idx + 1
            /\ UNCHANGED <<pc, automatic_push, call_back, repos, wc, names,
                           emails, options, item_to_replace, new_value, done,
                           push_changes, rounds, pushed, yes, calls, snap,
                           supplied>>

\* if not automatic_push: ... else: ...
ua_final_end ==
    /\ pc = "ua_final"
    /\ Idle
    /\ idx > Len(repos)
    /\ pc' = IF automatic_push THEN "ua_push_auto" ELSE "ua_push_prompt"
    /\ idx' = 1
    /\ UNCHANGED <<automatic_push, call_back, repos, wc, names, emails, options,
                   item_to_replace, new_value, done, push_changes, rounds,
                   dirty, pushed, yes, calls, snap, supplied>>

\* push_repo = user_prompt_yes_no("Would you like to push changes for ...").
ua_push_prompt ==
    /\ pc = "ua_push_prompt"
    /\ Idle
    /\ idx <= Len(repos)
    /\ \E ans \in WorkflowAnswers :
          LET r == user_prompt_yes_no(ans)
          IN  CASE r.state = "asking" -> AskAgain
                [] r.state = "raised" -> Crash
                [] OTHER ->
                    /\ push_changes' = r.value
                    /\ yes' = IF r.value THEN yes \cup {idx} ELSE yes
                    /\ pc' = "ua_push"
                    /\ UNCHANGED <<automatic_push, call_back, repos, wc, idx,
                                   names, emails, options, item_to_replace,
                                   new_value, done, rounds, dirty, pushed, calls,
                                   snap, supplied>>

\* Mutant: the repository is pushed whatever the answer was.
ua_push_always ==
    /\ pc = "ua_push"
    /\ Idle
    /\ IF TRUE
       THEN /\ wc' = [wc EXCEPT ![idx] = push(wc[idx], repos[idx]).wc]
            /\ pushed' = Append(pushed, [repo |-> idx,
                                         url |-> push(wc[idx], repos[idx]).url])
       ELSE UNCHANGED <<wc, pushed>>
    /\ idx' = idx + 1
    /\ pc' = "ua_push_prompt"
    /\ UNCHANGED <<automatic_push, call_back, repos, names, emails, options,
                   item_to_replace, new_value, done, push_changes, rounds,
                   dirty, yes, calls, snap, supplied>>

\* if push_repo: client.push(repo).
ua_push ==
    /\ pc = "ua_push"
    /\ Idle
    /\ IF push_changes
       THEN /\ wc' = [wc EXCEPT ![idx] = push(wc[idx], repos[idx]).wc]
            /\ pushed' = Append(pushed, [repo |-> idx,
                                         url |-> push(wc[idx], repos[idx]).url])
       ELSE UNCHANGED <<wc, pushed>>
    /\ idx' = idx + 1
    /\ pc' = "ua_push_prompt"
    /\ UNCHANGED <<automatic_push, call_back, repos, names, emails, options,
                   item_to_replace, new_value, done, push_changes, rounds,
                   dirty, yes, calls, snap, supplied>>

\* automatic_push: for repo in repos: client.push(repo).
ua_push_auto ==
    /\ pc = "ua_push_auto"
    /\ Idle
    /\ idx <= Len(repos)
    /\ wc' = [wc EXCEPT ![idx] = push(wc[idx], repos[idx]).wc]
    /\ pushed' = Append(pushed, [repo |-> idx, url |-> push(wc[idx], repos[idx]).url])
    /\ idx' = idx + 1
    /\ UNCHANGED <<pc, automatic_push, call_back, repos, names, emails, options,
                   item_to_replace, new_value, done, push_changes, rounds,
                   dirty, yes, calls, snap, supplied>>

\* Either push loop has gone through repos: update_all_repos returns.
ua_push_end ==
    /\ pc \in {"ua_push_prompt", "ua_push_auto"}
    /\ Idle
    /\ idx > Len(repos)
    /\ pc' = "done"
    /\ UNCHANGED <<automatic_push, call_back, repos, wc, idx, names, emails,
                   options, item_to_replace, new_value, done, push_changes,
                   rounds, dirty, pushed, yes, calls, snap, supplied>>

Next ==
    \/ update_repo_start
    \/ ur_clone
    \/ hn_list
    \/ hn_prompt
    \/ hn_update
    \/ he_list
    \/ he_prompt
    \/ he_update
    \/ ur_push_prompt
    \/ ur_push
    \/ ur_summary
    \/ update_all_repos_start
    \/ ua_clone
    \/ ua_clone_end
    \/ ua_while
    \/ ua_list
    \/ ua_menu
    \/ ua_pick
    \/ ua_new_value
    \/ ua_apply_quit
    \/ ua_apply_update
    \/ ua_apply_end
    \/ ua_final
    \/ ua_final_end
    \/ ua_push_prompt
    \/ ua_push
    \/ ua_push_auto
    \/ ua_push_end

Spec == Init /\ [][Next]_vars

---------------------------------------------------------------------------
(* Properties of the workflow *)

\* C1: at the moment GitClient.push issues the force-push, the origin URL of
\* the working copy equals the handle's origin field, which still equals the
\* clone URL the handle was constructed with, whatever rewrites came before
\* and whatever origin the working copy had.
C1_OriginPreserved ==
    \A k \in 1..Len(pushed) :
        LET repo == repos[pushed[k].repo]
        IN  /\ pushed[k].url = repo.origin
            /\ repo.origin = repo.ssh_url
            /\ \E n \in 1..MaxRepos :
                  repo.name = RepoName(n) /\ repo.ssh_url = RepoURL(n)

\* A push issued after a rename and a re-email of the same repository.
C1_Witness ==
    /\ call_back = "update_repo"
    /\ Len(pushed) = 1
    /\ Len(repos[1].names_updated) >= 1
    /\ Len(repos[1].emails_updated) >= 1

\* C2: in all-repositories mode, once the operator has selected quit no
\* replacement value is asked for, no rewrite call is made, the menu is not
\* shown again, and the while loop ends with that round.
C2_QuitTerminates ==
    item_to_replace.type = "quit" =>
        /\ pc \in {"ua_new_value", "ua_apply", "ua_while", "ua_final",
                   "ua_push_prompt", "ua_push", "ua_push_auto", "done"}
        /\ new_value = <<>>
        /\ calls = <<>>
        /\ pc = "ua_while" => done

\* C3: in single-repository mode the handle's names_updated log is exactly
\* the sequence of new names the operator supplied during the name pass, in
\* that order and with duplicates kept, during the name pass, through the
\* email pass and to the end.
C3_AuditLog ==
    (call_back = "update_repo" /\ Len(repos) = 1) =>
        repos[1].names_updated = supplied

\* The workflow has ended after two accepted renames to the same new name
\* and at least one re-email.
C3_Witness ==
    /\ call_back = "update_repo"
    /\ pc = "done"
    /\ Len(supplied) = 2
    /\ supplied[1] = supplied[2]
    /\ Len(repos[1].emails_updated) >= 1

AllNames == UNION {{r[1] : r \in wc[k].authors} : k \in 1..Len(wc)}

AllEmails == UNION {{r[2] : r \in wc[k].authors} : k \in 1..Len(wc)}

\* C4: at every menu render the options are exactly one entry per distinct
\* name and one per distinct email of the cloned repositories' current
\* authorship, plus the single quit entry; and a rename chosen from the menu
\* leaves unchanged every repository in which the old name does not occur.
C4_BatchUnion ==
    /\ pc = "ua_pick" =>
          /\ {options[k].value : k \in 1..Len(options)} =
                {[type |-> "name", value |-> n] : n \in AllNames}
                \cup {[type |-> "email", value |-> e] : e \in AllEmails}
                \cup {[type |-> "quit", value |-> <<>>]}
          /\ Len(options) = Cardinality(AllNames) + Cardinality(AllEmails) + 1
    /\ (pc \in {"ua_apply", "ua_while"} /\ item_to_replace.type = "name") =>
          \A k \in 1..Len(wc) :
              (\A r \in snap[k] : r[1] # item_to_replace.value) =>
                  wc[k].authors = snap[k]

\* Two repositories with authorship {(A,a)} and {(B,b)}: A was chosen and
\* replaced with C, the first repository changed and the second did not.
C4_Witness ==
    /\ pc = "ua_while"
    /\ snap = << {<< <<"A">>, <<"a">> >>}, {<< <<"B">>, <<"b">> >>} >>
    /\ item_to_replace = [type |-> "name", value |-> <<"A">>]
    /\ new_value = <<"C">>
    /\ wc[1].authors = {<< <<"C">>, <<"a">> >>}
    /\ wc[2].authors = {<< <<"B">>, <<"b">> >>}

\* C6: a repository is force-pushed only if the auto-push flag is set or the
\* operator answered Yes for that repository; in single-repository mode at
\* most one push happens, and only after both passes have ended.
C6_PushGate ==
    /\ \A k \in 1..Len(pushed) : automatic_push \/ pushed[k].repo \in yes
    /\ call_back = "update_repo" =>
          /\ Len(pushed) <= 1
          /\ pushed # <<>> => pc \in {"ur_summary", "done", "crashed"}

\* Two repositories, Yes for the first only, and only the first was pushed.
C6_Witness ==
    /\ call_back = "update_all_repos"
    /\ ~automatic_push
    /\ pc = "done"
    /\ Len(repos) = 2
    /\ yes = {1}
    /\ Len(pushed) = 1
    /\ pushed[1].repo = 1

\* A step in which update_name or update_email is called.
RewriteStep ==
    \/ pc \in {"hn_update", "he_update"}
    \/ pc = "ua_apply" /\ idx' = idx + 1

ExpectedCalls ==
    [k \in 1..Len(repos) |->
        [op |-> item_to_replace.type, repo |-> k,
         old |-> item_to_replace.value, new |-> new_value]]

\* C8: a round in which a name (an email) and a replacement were chosen calls
\* update_name (update_email) with that pair exactly once on every cloned
\* repository, in listing order, and makes no other rewrite call.
C8_BulkApply ==
    /\ (pc = "ua_while" /\ item_to_replace.type \in {"name", "email"}) =>
          calls = ExpectedCalls
    /\ (pc = "ua_apply" /\ item_to_replace.type \in {"name", "email"}) =>
          calls = SubSeq(ExpectedCalls, 1, idx - 1)

\* A round over two repositories has ended, one of which did not hold the
\* email that was replaced.
C8_Witness ==
    /\ pc = "ua_while"
    /\ item_to_replace.type = "email"
    /\ Len(calls) = 2
    /\ \E k \in 1..Len(snap) : \A r \in snap[k] : r[2] # item_to_replace.value

\* C9: every rewrite of a repository is followed by a listing of it before
\* the next rewrite of it, before any push of it and before the workflow
\* ends.
C9_Relist ==
    /\ pc \in {"hn_update", "he_update", "ur_push_prompt", "ur_push"} => 1 \notin dirty
    /\ (pc = "ua_apply" /\ idx <= Len(repos)) => idx \notin dirty
    /\ pc \in {"ua_push_prompt", "ua_push", "ua_push_auto"} => dirty = {}
    /\ pc \in {"done", "crashed"} => dirty = {}

\* Two bulk rounds over two repositories, then a push, and the end.
C9_Witness ==
    /\ pc = "done"
    /\ rounds = 2
    /\ Len(repos) = 2
    /\ pushed # <<>>

=============================================================================
